---- MODULE Spec2Model ----
(***************************************************************************)
(* Model of the Merkle-authenticated AVL tree of avl/src/node.rs.          *)
(*                                                                         *)
(* Option<T> is a sequence of length 0 (None) or 1 (Some).  A Node is a    *)
(* record with the fields of struct Node.  A digest (HashType) is the      *)
(* stream of items that was fed to the DefaultHasher that produced it:     *)
(* two digests are equal exactly when the hashers were fed the same items  *)
(* in the same order (DefaultHasher taken as collision free).  A u64 that  *)
(* no hasher produced (the 0 of ProofNode::Empty, a constant chosen by a   *)
(* caller) is a one-item stream of kind "lit".                             *)
(***************************************************************************)
EXTENDS Integers, Sequences, FiniteSets, TLC

\* Keys are 1..MaxKey in Spec, 1..DeepMaxKey in DeepSpec.
MaxKey == 4
DeepMaxKey == 7
\* The constant of test_failed_proof_verification.
FakeRootHash == 123456789

Keys == 1..MaxKey
\* Values stand for the value strings; two are enough to tell an overwrite.
Values == {1, 2}
DeepKeys == 1..DeepMaxKey
DeepValues == {1}

VARIABLES root, prev, ret
\* root: MerkleAvlTree.root
\* prev: history variable, root as it was when the last call was made
\* ret : the last call, its arguments and what it returned

vars == <<root, prev, ret>>

None == <<>>
Some(x) == <<x>>

max(a, b) == IF a >= b THEN a ELSE b

----------------------------------------------------------------------------
(* Hashing *)

DefaultHasher_new == <<>>
hash_i32(hasher, k) == Append(hasher, [kind |-> "i32", n |-> k, d |-> <<>>])
hash_str(hasher, v) == Append(hasher, [kind |-> "str", n |-> v, d |-> <<>>])
hash_u64(hasher, h) == Append(hasher, [kind |-> "u64", n |-> 0, d |-> h])
finish(hasher) == hasher
\* a u64 literal
Lit(c) == <<[kind |-> "lit", n |-> c, d |-> <<>>]>>

compute_hash(key, value) ==
    finish(hash_str(hash_i32(DefaultHasher_new, key), value))

----------------------------------------------------------------------------
(* Node *)

Node_new(key, value) ==
    [key |-> key, value |-> value, hash |-> compute_hash(key, value),
     height |-> 1, left |-> None, right |-> None]

height(node) == IF node = None THEN 0 ELSE node[1].height

\* update_height_and_hash without the assignment of line 110.
update_height_and_hash_stale_height(node) ==
    LET h0 == hash_str(hash_i32(DefaultHasher_new, node.key), node.value)
        h1 == IF node.left # None THEN hash_u64(h0, node.left[1].hash) ELSE h0
        h2 == IF node.right # None THEN hash_u64(h1, node.right[1].hash) ELSE h1
    IN  [node EXCEPT !.hash = finish(h2)]

update_height_and_hash(node) ==
    LET h0 == hash_str(hash_i32(DefaultHasher_new, node.key), node.value)
        h1 == IF node.left # None THEN hash_u64(h0, node.left[1].hash) ELSE h0
        h2 == IF node.right # None THEN hash_u64(h1, node.right[1].hash) ELSE h1
    IN  [node EXCEPT !.height = 1 + max(height(node.left), height(node.right)),
                     !.hash = finish(h2)]

\* What a Node function returns: the subtree, or a panic (an unwrap of None).
OkNode(node) == [panic |-> FALSE, node |-> node]
PanicNode == [panic |-> TRUE, node |-> None]

balance_factor(node) ==
    IF node = None
    THEN [panic |-> TRUE, val |-> 0]
    ELSE [panic |-> FALSE,
          val |-> height(node[1].right) - height(node[1].left)]

\* rotate_right with the two updates of lines 143-144 exchanged.
rotate_right_wrong_order(node) ==
    IF node.left = None THEN PanicNode
    ELSE LET new_root == node.left[1]
             child == [node EXCEPT !.left = new_root.right]
             top == update_height_and_hash([new_root EXCEPT !.right = Some(child)])
         IN  OkNode(Some([top EXCEPT !.right = Some(update_height_and_hash(child))]))

rotate_right(node) ==
    IF node.left = None THEN PanicNode
    ELSE LET new_root == node.left[1]
             child == update_height_and_hash([node EXCEPT !.left = new_root.right])
         IN  OkNode(Some(update_height_and_hash(
                 [new_root EXCEPT !.right = Some(child)])))

\* rotate_left taking node.left, as rotate_right does.
rotate_left_takes_left(node) == rotate_right(node)

\* rotate_left handing the old root the new root's right subtree.
rotate_left_wrong_child(node) ==
    IF node.right = None THEN PanicNode
    ELSE LET new_root == node.right[1]
             child == update_height_and_hash([node EXCEPT !.right = new_root.right])
         IN  OkNode(Some(update_height_and_hash(
                 [new_root EXCEPT !.left = Some(child)])))

rotate_left(node) ==
    IF node.right = None THEN PanicNode
    ELSE LET new_root == node.right[1]
             child == update_height_and_hash([node EXCEPT !.right = new_root.left])
         IN  OkNode(Some(update_height_and_hash(
                 [new_root EXCEPT !.left = Some(child)])))

balance(node) ==
    IF node = None THEN OkNode(None)
    ELSE LET n == node[1]
             bf == balance_factor(Some(n))
         IN  IF bf.val > 1
             THEN LET rbf == balance_factor(n.right)
                  IN  IF rbf.panic THEN PanicNode
                      ELSE IF rbf.val < 0
                      THEN LET r == rotate_right(n.right[1])
                           IN  IF r.panic THEN PanicNode
                               ELSE rotate_left([n EXCEPT !.right = r.node])
                      ELSE rotate_left(n)
             ELSE IF bf.val < -1
             THEN LET lbf == balance_factor(n.left)
                  IN  IF lbf.panic THEN PanicNode
                      ELSE IF lbf.val > 0
                      THEN LET l == rotate_left(n.left[1])
                           IN  IF l.panic THEN PanicNode
                               ELSE rotate_right([n EXCEPT !.left = l.node])
                      ELSE rotate_right(n)
             ELSE OkNode(Some(n))

\* The Equal arm without the assignment of line 179.
insert_equal_keeps_value(n, value) == n

\* The Equal arm of Node::insert.
insert_equal(n, value) == [n EXCEPT !.value = value]

RECURSIVE insert(_, _, _)
insert(node, key, value) ==
    IF node = None THEN OkNode(Some(Node_new(key, value)))
    ELSE LET n == node[1]
         IN  IF key < n.key
             THEN LET l == insert(n.left, key, value)
                  IN  IF l.panic THEN PanicNode
                      ELSE balance(Some(update_height_and_hash(
                               [n EXCEPT !.left = l.node])))
             ELSE IF key > n.key
             THEN LET r == insert(n.right, key, value)
                  IN  IF r.panic THEN PanicNode
                      ELSE balance(Some(update_height_and_hash(
                               [n EXCEPT !.right = r.node])))
             ELSE balance(Some(update_height_and_hash(insert_equal(n, value))))

RECURSIVE lookup(_, _)
lookup(node, key) ==
    IF node = None THEN [err |-> "NotFound", value |-> 0]
    ELSE LET n == node[1]
         IN  IF key < n.key THEN lookup(n.left, key)
             ELSE IF key > n.key THEN lookup(n.right, key)
             ELSE [err |-> "", value |-> n.value]

\* The splice without the assignment of line 216.
splice_successor_key_only(n, min_right, new_right) ==
    [n EXCEPT !.key = min_right.key, !.right = new_right]

\* Lines 215-217: the node takes the key and value of its in-order successor.
splice_successor(n, min_right, new_right) ==
    [n EXCEPT !.key = min_right.key, !.value = min_right.value,
              !.right = new_right]

RECURSIVE delete_min(_)
delete_min(node) ==
    IF node.left # None
    THEN LET d == delete_min(node.left[1])
         IN  IF d.panic THEN d
             ELSE LET b == balance(Some(update_height_and_hash(
                               [node EXCEPT !.left = d.node])))
                  IN  [panic |-> b.panic, node |-> b.node, min |-> d.min]
    ELSE [panic |-> FALSE, node |-> node.right,
          min |-> [node EXCEPT !.right = None]]

\* What Node::delete returns: Err(NotFound), or Ok((subtree, deleted)).
DeleteErr == [panic |-> FALSE, err |-> "NotFound", node |-> None, deleted |-> None]
DeletePanic == [panic |-> TRUE, err |-> "", node |-> None, deleted |-> None]

\* Lines 221-222: the common tail of the three arms.
delete_return(n, deleted) ==
    LET b == balance(Some(update_height_and_hash(n)))
    IN  IF b.panic THEN DeletePanic
        ELSE [panic |-> FALSE, err |-> "", node |-> b.node, deleted |-> deleted]

RECURSIVE delete(_, _)
delete(node, key) ==
    IF node = None THEN DeleteErr
    ELSE LET n == node[1]
         IN  IF key < n.key
             THEN LET l == delete(n.left, key)
                  IN  IF l.panic \/ l.err # "" THEN l
                      ELSE delete_return([n EXCEPT !.left = l.node], l.deleted)
             ELSE IF key > n.key
             THEN LET r == delete(n.right, key)
                  IN  IF r.panic \/ r.err # "" THEN r
                      ELSE delete_return([n EXCEPT !.right = r.node], r.deleted)
             ELSE IF n.left = None
             THEN [panic |-> FALSE, err |-> "", node |-> n.right,
                   deleted |-> Some(n)]
             ELSE IF n.right = None
             THEN [panic |-> FALSE, err |-> "", node |-> n.left,
                   deleted |-> Some(n)]
             ELSE LET m == delete_min(n.right[1])
                  IN  IF m.panic THEN DeletePanic
                      ELSE delete_return(splice_successor(n, m.min, m.node),
                                         Some(n))

----------------------------------------------------------------------------
(* ProofNode *)

ProofLeft(node_hash, child) ==
    [tag |-> "Left", hash |-> node_hash, child |-> Some(child),
     key |-> 0, value |-> 0]
ProofRight(child, node_hash) ==
    [tag |-> "Right", hash |-> node_hash, child |-> Some(child),
     key |-> 0, value |-> 0]
ProofLeaf(key, value) ==
    [tag |-> "Leaf", hash |-> <<>>, child |-> None, key |-> key, value |-> value]
ProofEmpty ==
    [tag |-> "Empty", hash |-> <<>>, child |-> None, key |-> 0, value |-> 0]

\* Always Ok: an absent key gives a proof that ends in Empty.
RECURSIVE generate_proof(_, _)
generate_proof(node, key) ==
    IF node = None THEN ProofEmpty
    ELSE LET n == node[1]
         IN  IF key < n.key
             THEN ProofLeft(n.hash, generate_proof(n.left, key))
             ELSE IF key > n.key
             THEN ProofRight(generate_proof(n.right, key), n.hash)
             ELSE ProofLeaf(n.key, n.value)

RECURSIVE ProofNode_hash(_)
ProofNode_hash(self) ==
    IF self.tag = "Left"
    THEN finish(hash_u64(hash_u64(DefaultHasher_new, self.hash),
                         ProofNode_hash(self.child[1])))
    ELSE IF self.tag = "Right"
    THEN finish(hash_u64(hash_u64(DefaultHasher_new,
                                  ProofNode_hash(self.child[1])), self.hash))
    ELSE IF self.tag = "Leaf"
    THEN finish(hash_str(hash_i32(DefaultHasher_new, self.key), self.value))
    ELSE Lit(0)

ProofNode_key_value(self) ==
    IF self.tag = "Leaf" THEN Some([key |-> self.key, value |-> self.value])
    ELSE None

----------------------------------------------------------------------------
(* MerkleAvlTree *)

\* self.root.take() leaves None in self.root until self.root is assigned.
MerkleAvlTree_insert(self_root, key, value) ==
    LET r == insert(self_root, key, value)
    IN  IF r.panic THEN [root |-> None, err |-> "panic"]
        ELSE [root |-> r.node, err |-> ""]

\* The ? of line 56 returns the error before line 57 assigns self.root.
MerkleAvlTree_delete(self_root, key) ==
    LET taken == self_root
        after_take == None
        r == delete(taken, key)
    IN  IF r.panic THEN [root |-> after_take, err |-> "panic"]
        ELSE IF r.err # "" THEN [root |-> after_take, err |-> r.err]
        ELSE [root |-> r.node,
              err |-> IF r.deleted # None THEN "" ELSE "NotFound"]

MerkleAvlTree_lookup(self_root, key) == lookup(self_root, key)

root_hash(self_root) ==
    IF self_root = None THEN None ELSE Some(self_root[1].hash)

MerkleAvlTree_generate_proof(self_root, key) == generate_proof(self_root, key)

InvalidProof == [err |-> "InvalidProof", key |-> 0, value |-> 0]

\* verify_proof without the comparison of line 78.
verify_proof_unchecked(proof, trusted) ==
    LET kv == ProofNode_key_value(proof)
    IN  IF kv = None THEN InvalidProof
        ELSE [err |-> "", key |-> kv[1].key, value |-> kv[1].value]

verify_proof(proof, trusted) ==
    IF ProofNode_hash(proof) = trusted
    THEN LET kv == ProofNode_key_value(proof)
         IN  IF kv = None THEN InvalidProof
             ELSE [err |-> "", key |-> kv[1].key, value |-> kv[1].value]
    ELSE InvalidProof

----------------------------------------------------------------------------
(* The calls *)

NoCall == [op |-> "new", key |-> 0, value |-> 0, proof |-> None,
           hash |-> None, err |-> ""]

Init ==
    /\ root = None
    /\ prev = None
    /\ ret = NoCall

InsertOf(K, V) ==
    \E k \in K, v \in V :
        LET r == MerkleAvlTree_insert(root, k, v)
        IN  /\ root' = r.root
            /\ prev' = root
            /\ ret' = [NoCall EXCEPT !.op = "insert", !.key = k, !.value = v,
                                     !.err = r.err]

DeleteOf(K) ==
    \E k \in K :
        LET r == MerkleAvlTree_delete(root, k)
        IN  /\ root' = r.root
            /\ prev' = root
            /\ ret' = [NoCall EXCEPT !.op = "delete", !.key = k, !.err = r.err]

Insert == InsertOf(Keys, Values)

Delete == DeleteOf(Keys)

Lookup ==
    \E k \in Keys :
        LET r == MerkleAvlTree_lookup(root, k)
        IN  /\ root' = root
            /\ prev' = root
            /\ ret' = [NoCall EXCEPT !.op = "lookup", !.key = k,
                                     !.value = r.value, !.err = r.err]

RootHash ==
    /\ root' = root
    /\ prev' = root
    /\ ret' = [NoCall EXCEPT !.op = "root_hash", !.hash = root_hash(root)]

GenerateProof ==
    \E k \in Keys :
        /\ root' = root
        /\ prev' = root
        /\ ret' = [NoCall EXCEPT !.op = "generate_proof", !.key = k,
                       !.proof = Some(MerkleAvlTree_generate_proof(root, k))]

\* The digests a caller checks the proof it holds against: the tree's root
\* digest, the digest the proof folds to, the constant of the failing test,
\* and 0.
TrustedDigests(proof) ==
    {ProofNode_hash(proof), Lit(FakeRootHash), Lit(0)}
        \cup (IF root = None THEN {} ELSE {root[1].hash})

\* verify_proof on the proof the caller was handed by the last call.
VerifyProof ==
    /\ ret.proof # None
    /\ \E d \in TrustedDigests(ret.proof[1]) :
        LET r == verify_proof(ret.proof[1], d)
        IN  /\ root' = root
            /\ prev' = root
            /\ ret' = [NoCall EXCEPT !.op = "verify_proof", !.proof = ret.proof,
                           !.hash = Some(d), !.key = r.key, !.value = r.value,
                           !.err = r.err]

Next == Insert \/ Delete \/ Lookup \/ RootHash \/ GenerateProof \/ VerifyProof

Spec == Init /\ [][Next]_vars

DeepInsert == InsertOf(DeepKeys, DeepValues)

DeepDelete == DeleteOf(DeepKeys)

DeepNext == DeepInsert \/ DeepDelete

\* The same tree under more keys and one value: every rebalancing case
\* of insert, delete and delete_min happens.
DeepSpec == Init /\ [][DeepNext]_vars

----------------------------------------------------------------------------
(* What the properties are stated with *)

RECURSIVE TreeHeight(_)
TreeHeight(node) ==
    IF node = None THEN 0
    ELSE 1 + max(TreeHeight(node[1].left), TreeHeight(node[1].right))

RECURSIVE Entries(_)
Entries(node) ==
    IF node = None THEN {}
    ELSE Entries(node[1].left) \cup {<<node[1].key, node[1].value>>}
             \cup Entries(node[1].right)

KeySet(node) == {e[1] : e \in Entries(node)}

RECURSIVE Size(_)
Size(node) ==
    IF node = None THEN 0 ELSE 1 + Size(node[1].left) + Size(node[1].right)

\* The tree without its values and digests.
RECURSIVE Shape(_)
Shape(node) ==
    IF node = None THEN <<>>
    ELSE <<[key |-> node[1].key, height |-> node[1].height,
            left |-> Shape(node[1].left), right |-> Shape(node[1].right)]>>

RECURSIVE Balanced(_)
Balanced(node) ==
    \/ node = None
    \/ /\ TreeHeight(node[1].right) - TreeHeight(node[1].left) \in {-1, 0, 1}
       /\ Balanced(node[1].left)
       /\ Balanced(node[1].right)

RECURSIVE Ordered(_)
Ordered(node) ==
    \/ node = None
    \/ /\ \A k \in KeySet(node[1].left) : k < node[1].key
       /\ \A k \in KeySet(node[1].right) : k > node[1].key
       /\ Ordered(node[1].left)
       /\ Ordered(node[1].right)

\* H(key, value, digest(left) if present, digest(right) if present)
H(node) ==
    <<[kind |-> "i32", n |-> node.key, d |-> <<>>],
      [kind |-> "str", n |-> node.value, d |-> <<>>]>>
    \o (IF node.left = None THEN <<>>
        ELSE <<[kind |-> "u64", n |-> 0, d |-> node.left[1].hash]>>)
    \o (IF node.right = None THEN <<>>
        ELSE <<[kind |-> "u64", n |-> 0, d |-> node.right[1].hash]>>)

RECURSIVE DigestsConsistent(_)
DigestsConsistent(node) ==
    \/ node = None
    \/ /\ node[1].hash = H(node[1])
       /\ DigestsConsistent(node[1].left)
       /\ DigestsConsistent(node[1].right)

RootKey(node) == IF node = None THEN {} ELSE {node[1].key}
\* The keys of the root and of its two children.
TopKeys(node) ==
    IF node = None THEN {}
    ELSE {node[1].key} \cup RootKey(node[1].left) \cup RootKey(node[1].right)

Present(node, key) == key \in KeySet(node)

\* The last call was a delete of a node with two children whose successor
\* is not its right child: delete_min recursed.
DeletedTwoChildren ==
    /\ ret.op = "delete"
    /\ ret.err = ""
    /\ prev # None
    /\ prev[1].key = ret.key
    /\ prev[1].left # None
    /\ prev[1].right # None
    /\ prev[1].right[1].left # None

\* ... and removing the successor left the right subtree right-heavy by two:
\* balance rotated inside delete_min.
DeleteMinRebalanced ==
    /\ DeletedTwoChildren
    /\ height(prev[1].right[1].left) = 1
    /\ height(prev[1].right[1].right) = 2

\* The last call rotated at the root: the root changed although its key
\* was neither inserted nor deleted.
RotatedAtRoot ==
    /\ ret.op \in {"insert", "delete"}
    /\ ret.err = ""
    /\ prev # None
    /\ root # None
    /\ ret.key # prev[1].key
    /\ root[1].key # prev[1].key

\* ... by a double rotation: the new root was a grandchild of the old one.
DoubleRotatedAtRoot == RotatedAtRoot /\ root[1].key \notin TopKeys(prev)

RECURSIVE EndsInLeaf(_)
EndsInLeaf(proof) ==
    IF proof.tag \in {"Left", "Right"} THEN EndsInLeaf(proof.child[1])
    ELSE proof.tag = "Leaf"

RECURSIVE EmbeddedLeaf(_)
EmbeddedLeaf(proof) ==
    IF proof.tag \in {"Left", "Right"} THEN EmbeddedLeaf(proof.child[1])
    ELSE proof

RECURSIVE Depth(_)
Depth(proof) ==
    IF proof.tag \in {"Left", "Right"} THEN 1 + Depth(proof.child[1]) ELSE 0

----------------------------------------------------------------------------
(* The claims *)

\* C1: for every key k present with value v, verify_proof(generate_proof(k),
\* root_hash()) succeeds and returns (k, v), wherever k is in the tree.
C1_ProofOfPresentKeyVerifies ==
    \A k \in Keys :
        ( /\ ret.op = "verify_proof"
          /\ Present(root, k)
          /\ ret.proof = Some(generate_proof(root, k))
          /\ ret.hash = root_hash(root) )
        => /\ ret.err = ""
           /\ ret.key = k
           /\ <<ret.key, ret.value>> \in Entries(root)

\* C2: delete(k) on a tree that does not contain k returns Err(NotFound) and
\* leaves the tree as it was.
C2_AbsentDeleteLeavesTree ==
    (ret.op = "delete" /\ ~Present(prev, ret.key))
        => (ret.err = "NotFound" /\ root = prev)

\* C3: after every insert and delete every node has
\* |height(right) - height(left)| <= 1, heights computed from the tree.
C3_Balanced == Balanced(root)

C3_Witness == RotatedAtRoot /\ ret.op = "delete" /\ TreeHeight(root) >= 3

\* C4: the tree is a key-value map.  insert(k, v) makes lookup(k) return v,
\* delete(k) of a present key makes lookup(k) fail with NotFound, neither
\* changes what lookup returns for another key, and the lookup call returns
\* what the map holds.
C4_KeyValueMap ==
    /\ ret.op = "insert" =>
          /\ lookup(root, ret.key) = [err |-> "", value |-> ret.value]
          /\ \A j \in Keys \ {ret.key} : lookup(root, j) = lookup(prev, j)
    /\ (ret.op = "delete" /\ Present(prev, ret.key)) =>
          /\ ret.err = ""
          /\ lookup(root, ret.key) = [err |-> "NotFound", value |-> 0]
          /\ \A j \in Keys \ {ret.key} : lookup(root, j) = lookup(prev, j)
    /\ ret.op = "lookup" =>
          IF Present(root, ret.key)
          THEN ret.err = "" /\ <<ret.key, ret.value>> \in Entries(root)
          ELSE ret.err = "NotFound"
    /\ \A k \in Keys :
          IF Present(root, k)
          THEN /\ lookup(root, k).err = ""
               /\ <<k, lookup(root, k).value>> \in Entries(root)
          ELSE lookup(root, k).err = "NotFound"

\* a two-child root was replaced by its successor, whose value differs
C4_Witness ==
    /\ DeletedTwoChildren
    /\ root # None
    /\ root[1].key # ret.key
    /\ lookup(prev, root[1].key).value # prev[1].value
    /\ lookup(root, root[1].key) = lookup(prev, root[1].key)

\* C5: verify_proof(proof, d) returns the embedded leaf's (key, value)
\* whenever the proof folds to d and its chain of steps ends in a Leaf, at
\* any depth; it fails with InvalidProof otherwise.
C5_EmbeddedLeafReturned ==
    ret.op = "verify_proof" =>
        IF ProofNode_hash(ret.proof[1]) = ret.hash[1] /\ EndsInLeaf(ret.proof[1])
        THEN /\ ret.err = ""
             /\ ret.key = EmbeddedLeaf(ret.proof[1]).key
             /\ ret.value = EmbeddedLeaf(ret.proof[1]).value
        ELSE ret.err = "InvalidProof"

\* C6: verify_proof(proof, d) with d different from the digest the proof
\* folds to fails with InvalidProof and returns no (key, value).
C6_MismatchRejected ==
    (ret.op = "verify_proof" /\ ProofNode_hash(ret.proof[1]) # ret.hash[1])
        => (ret.err = "InvalidProof" /\ ret.key = 0 /\ ret.value = 0)

\* the proof of the root key of a three-node tree against the constant
C6_Witness ==
    /\ ret.op = "verify_proof"
    /\ Size(root) = 3
    /\ ret.proof = Some(generate_proof(root, root[1].key))
    /\ ret.hash = Some(Lit(FakeRootHash))
    /\ ret.err = "InvalidProof"

\* C7: insert(k, v') on a tree that contains k changes the value of k to v'
\* and nothing else: same node count, same keys, same shape, same value
\* for every other key.
C7_OverwriteInPlace ==
    (ret.op = "insert" /\ Present(prev, ret.key)) =>
        /\ Size(root) = Size(prev)
        /\ KeySet(root) = KeySet(prev)
        /\ Shape(root) = Shape(prev)
        /\ {e \in Entries(root) : e[1] # ret.key}
               = {e \in Entries(prev) : e[1] # ret.key}
        /\ <<ret.key, ret.value>> \in Entries(root)

\* an inner node of a four-node tree got another value
C7_Witness ==
    /\ ret.op = "insert"
    /\ Size(prev) = 4
    /\ Present(prev, ret.key)
    /\ <<ret.key, ret.value>> \notin Entries(prev)
    /\ ret.key \in TopKeys(prev) \ RootKey(prev)
    /\ <<ret.key, ret.value>> \in Entries(root)

\* C8: after every insert and every successful delete every node stores
\* the digest H(key, value, digest(left) if present, digest(right) if
\* present) of its current key, value and children.
C8_DigestsConsistent == DigestsConsistent(root)

C8_Witness ==
    /\ DoubleRotatedAtRoot
    /\ ret.op = "insert"
    /\ root[1].left[1].hash = H(root[1].left[1])

\* C9: after every insert and delete every node's left subtree holds only
\* smaller keys and its right subtree only larger keys.
C9_Ordered == Ordered(root)

\* a two-child root was deleted and delete_min rebalanced the right subtree
C9_Witness ==
    /\ DeleteMinRebalanced
    /\ Size(root) = Size(prev) - 1
    /\ ret.key \notin KeySet(root)

\* C10: no call panics: no unwrap in balance_factor, rotate_left,
\* rotate_right or balance meets None.
C10_NoPanic == ret.err # "panic"

C10_Witness == DoubleRotatedAtRoot /\ ret.op = "delete" /\ ret.err # "panic"

====
